---- MODULE Spec2Model ----
(***************************************************************************)
(* Model of txtai's FastAPI application module (api/application.py): the   *)
(* module-level app and instance, the accessor get() and the startup       *)
(* handler start(); and of the LLM pipeline facade (pipeline/llm/llm.py).  *)
(***************************************************************************)
EXTENDS Integers, Sequences, FiniteSets, TLC

VARIABLES
    declared,    \* keys of the YAML settings when the process started
    yaml,        \* keys of the YAML settings API.read(os.getenv("CONFIG")) returns
    apiClass,    \* os.getenv("API_CLASS"); "" when unset or empty
    EXTENSIONS,  \* os.getenv("EXTENSIONS") as a character sequence; <<>> when unset or empty
    instance,    \* module global INSTANCE (application.py line 19)
    routes,      \* routers included into the module-level app, in inclusion order
    config,      \* start(): local config (its keys)
    names,       \* start(): extensions.split(",")
    k,           \* start(): position of the extension loop in names
    pc,          \* position of start(): idle before the first call
    runs,        \* number of calls of start() so far
    base,        \* Len(routes) when the current call of start() began
    lbase,       \* Len(log) when the current call of start() began
    log,         \* observable trace of the extension loop
    got,         \* outcome of the last call of get()
    generator,   \* LLM.generator: the backend GenerationFactory.create built
    request,     \* arguments of the last LLM.__call__
    reply        \* outcome of the last LLM.__call__

vars == <<declared, yaml, apiClass, EXTENSIONS, instance, routes, config, names, k, pc,
          runs, base, lbase, log, got, generator, request, reply>>

appvars == <<declared, yaml, apiClass, EXTENSIONS, instance, routes, config, names, k, pc,
             runs, base, lbase, log, got>>

llmvars == <<generator, request, reply>>

----------------------------------------------------------------------------
(* Bounds *)

MaxKeys == 4        \* configuration keys drawn from the first MaxKeys of KeyOrder
MaxEnvLen == 3      \* longest EXTENSIONS string
MaxStarts == 2      \* calls of start() in one process
MaxLength == 2      \* largest maxlength passed to LLM.__call__
MaxOutput == 3      \* longest output a backend produces

----------------------------------------------------------------------------
(* Values *)

None == [cls |-> "NoneType"]

\* Router definitions, application.py lines 50-64
routers == << "caption", "embeddings", "extractor", "labels", "objects",
              "segmentation", "similarity", "summary", "tabular", "textractor",
              "transcription", "translation", "workflow" >>

RouterNames == { routers[i] : i \in 1..Len(routers) }

\* Configuration keys the model draws from: "cluster" has no router of its own
KeyOrder == << "cluster", "embeddings", "similarity", "workflow", "summary",
               "caption", "labels", "path" >>

ConfigKeys == { KeyOrder[i] : i \in 1..(IF MaxKeys < Len(KeyOrder) THEN MaxKeys ELSE Len(KeyOrder)) }

ApiClasses == { "", "custom.API" }

Alphabet == { "a", "b", ",", " " }

RECURSIVE Strings(_)
Strings(n) == IF n = 0 THEN { <<>> }
              ELSE Strings(n - 1) \cup
                   { Append(s, c) : s \in { t \in Strings(n - 1) : Len(t) = n - 1 }, c \in Alphabet }

\* Extension names Factory.get resolves to a class
Resolvable == { <<"a">>, <<"b">> }

----------------------------------------------------------------------------
(* str.split(",") and str.strip() *)

RECURSIVE SplitFrom(_, _, _)
SplitFrom(s, i, cur) ==
    IF i > Len(s) THEN << cur >>
    ELSE IF s[i] = "," THEN << cur >> \o SplitFrom(s, i + 1, <<>>)
    ELSE SplitFrom(s, i + 1, Append(cur, s[i]))

Split(s) == SplitFrom(s, 1, <<>>)

RECURSIVE LStrip(_)
LStrip(s) == IF s # <<>> /\ Head(s) = " " THEN LStrip(Tail(s)) ELSE s

RECURSIVE RStrip(_)
RStrip(s) == IF s # <<>> /\ s[Len(s)] = " " THEN RStrip(SubSeq(s, 1, Len(s) - 1)) ELSE s

Strip(s) == RStrip(LStrip(s))

----------------------------------------------------------------------------
(* start(): composition of the routers *)

\* lines 67-69: the routers whose name is a key of config, in list order
InConfig(name, cfg) == name \in cfg

RECURSIVE DeclaredFrom(_, _)
DeclaredFrom(i, cfg) ==
    IF i > Len(routers) THEN <<>>
    ELSE (IF InConfig(routers[i], cfg) THEN << routers[i] >> ELSE <<>>)
         \o DeclaredFrom(i + 1, cfg)

Declared(cfg) == DeclaredFrom(1, cfg)

\* the cluster rule without its test that embeddings is undeclared
ClusterRuleUnguarded(cfg) == "cluster" \in cfg

\* the cluster rule testing the wrong key
ClusterRuleWrongKey(cfg) == "cluster" \in cfg /\ "similarity" \notin cfg

\* line 72
ClusterRule(cfg) == "cluster" \in cfg /\ "embeddings" \notin cfg

\* the similarity rule read against the keys the cluster rule has added
SimilarityRuleChained(cfg) ==
    ("embeddings" \in cfg \/ ("cluster" \in cfg /\ "embeddings" \notin cfg)) /\ "similarity" \notin cfg

\* line 76
SimilarityRule(cfg) == "embeddings" \in cfg /\ "similarity" \notin cfg

\* line 47
Create(cfg, api) == [cls |-> IF api # "" THEN api ELSE "API", config |-> cfg]

\* start() without its global statement: the instance stays local
EnterLocalInstance(from) ==
    /\ pc \in from
    /\ runs < MaxStarts
    /\ config' = yaml
    /\ runs' = runs + 1
    /\ base' = Len(routes)
    /\ lbase' = Len(log)
    /\ names' = <<>>
    /\ k' = 0
    /\ pc' = "routers"
    /\ UNCHANGED <<declared, yaml, apiClass, EXTENSIONS, instance, routes, log, got>>
    /\ UNCHANGED llmvars

\* lines 43-47, entered from one of the positions in from
Enter(from) ==
    /\ pc \in from
    /\ runs < MaxStarts
    /\ config' = yaml
    /\ instance' = Create(yaml, apiClass)
    /\ runs' = runs + 1
    /\ base' = Len(routes)
    /\ lbase' = Len(log)
    /\ names' = <<>>
    /\ k' = 0
    /\ pc' = "routers"
    /\ UNCHANGED <<declared, yaml, apiClass, EXTENSIONS, routes, log, got>>
    /\ UNCHANGED llmvars

Start == Enter({"idle", "done", "failed"})

\* lines 66-69
IncludeDeclared ==
    /\ pc = "routers"
    /\ routes' = routes \o Declared(config)
    /\ pc' = "cluster"
    /\ UNCHANGED <<declared, yaml, apiClass, EXTENSIONS, instance, config, names, k, runs, base, lbase, log, got>>
    /\ UNCHANGED llmvars

\* lines 71-73
ClusterCase ==
    /\ pc = "cluster"
    /\ routes' = IF ClusterRule(config) THEN Append(routes, "embeddings") ELSE routes
    /\ pc' = "similarity"
    /\ UNCHANGED <<declared, yaml, apiClass, EXTENSIONS, instance, config, names, k, runs, base, lbase, log, got>>
    /\ UNCHANGED llmvars

\* lines 75-77
SimilarityCase ==
    /\ pc = "similarity"
    /\ routes' = IF SimilarityRule(config) THEN Append(routes, "similarity") ELSE routes
    /\ pc' = "extensions"
    /\ UNCHANGED <<declared, yaml, apiClass, EXTENSIONS, instance, config, names, k, runs, base, lbase, log, got>>
    /\ UNCHANGED llmvars

----------------------------------------------------------------------------
(* start(): extensions *)

\* lines 80-82
ReadExtensions ==
    /\ pc = "extensions"
    /\ IF EXTENSIONS # <<>>
       THEN /\ names' = Split(EXTENSIONS)
            /\ k' = 1
            /\ pc' = "create"
       ELSE /\ names' = <<>>
            /\ k' = 0
            /\ pc' = "done"
    /\ UNCHANGED <<declared, yaml, apiClass, EXTENSIONS, instance, routes, config, runs, base, lbase, log, got>>
    /\ UNCHANGED llmvars

\* line 84: Factory.get(extension.strip())()
ExtCreate ==
    /\ pc = "create"
    /\ LET name == Strip(names[k]) IN
         IF name \in Resolvable
         THEN /\ log' = log \o << <<"get", name>>, <<"new", name>> >>
              /\ pc' = "call"
         ELSE /\ log' = Append(log, <<"unresolved", name>>)
              /\ pc' = "failed"
    /\ UNCHANGED <<declared, yaml, apiClass, EXTENSIONS, instance, routes, config, names, k, runs, base, lbase, got>>
    /\ UNCHANGED llmvars

\* the extension is started and the loop goes on without waiting for it
ExtCallNotAwaited ==
    /\ pc = "call"
    /\ LET name == Strip(names[k]) IN
         log' = Append(log, <<"call", name>>)
    /\ k' = k + 1
    /\ pc' = IF k + 1 > Len(names) THEN "done" ELSE "create"
    /\ UNCHANGED <<declared, yaml, apiClass, EXTENSIONS, instance, routes, config, names, runs, base, lbase, got>>
    /\ UNCHANGED llmvars

\* line 85: extension(app) returns; the loop goes on or start() returns
ExtCall ==
    /\ pc = "call"
    /\ LET name == Strip(names[k]) IN
         log' = log \o << <<"call", name>>, <<"return", name>> >>
    /\ k' = k + 1
    /\ pc' = IF k + 1 > Len(names) THEN "done" ELSE "create"
    /\ UNCHANGED <<declared, yaml, apiClass, EXTENSIONS, instance, routes, config, names, runs, base, lbase, got>>
    /\ UNCHANGED llmvars

\* line 85: extension(app) raises, the exception leaves start()
ExtRaise ==
    /\ pc = "call"
    /\ LET name == Strip(names[k]) IN
         log' = log \o << <<"call", name>>, <<"raise", name>> >>
    /\ pc' = "failed"
    /\ UNCHANGED <<declared, yaml, apiClass, EXTENSIONS, instance, routes, config, names, k, runs, base, lbase, got>>
    /\ UNCHANGED llmvars

----------------------------------------------------------------------------
(* get() *)

\* lines 22-30
Get ==
    /\ pc \in {"idle", "done", "failed"}
    /\ got' = [kind |-> "return", value |-> instance]
    /\ UNCHANGED <<declared, yaml, apiClass, EXTENSIONS, instance, routes, config, names, k, pc, runs, base, lbase, log>>
    /\ UNCHANGED llmvars

----------------------------------------------------------------------------
(* LLM pipeline, pipeline/llm/llm.py *)

DefaultPath == "google/flan-t5-base"

DefaultMaxLength == 512

Paths == { "", "model.gguf" }

Methods == { "", "transformers", "llama.cpp", "litellm", "custom" }

Texts == { "text", "list" }

MaxLengths == (1..MaxLength) \cup { DefaultMaxLength }

\* GenerationFactory.create(path, method): the backend; bounds tells whether
\* its generation has a way to bound the output length
Generation(path, method, bounds) == [path |-> path, method |-> method, bounds |-> bounds]

\* lengths of the output the backend can produce for a call with maxlength
Outputs(gen, maxlength) ==
    IF gen.bounds THEN { n \in 0..MaxOutput : n <= maxlength } ELSE 0..MaxOutput

\* llm.py lines 18-32: LLM.__init__
LLMInit ==
    /\ generator = None
    /\ \E path \in Paths, method \in Methods, bounds \in BOOLEAN :
         generator' = Generation(IF path # "" THEN path ELSE DefaultPath, method, bounds)
    /\ UNCHANGED <<request, reply>>
    /\ UNCHANGED appvars

\* llm.py lines 34-48: LLM.__call__ forwards to the generator and returns its output
LLMCall ==
    /\ generator # None
    /\ \E text \in Texts, maxlength \in MaxLengths :
         /\ request' = [kind |-> "call", text |-> text, maxlength |-> maxlength]
         /\ \E n \in Outputs(generator, maxlength) :
              reply' = [kind |-> "return", length |-> n]
    /\ UNCHANGED generator
    /\ UNCHANGED appvars

----------------------------------------------------------------------------
(* Specifications *)

AppIdle ==
    /\ instance = None
    /\ routes = <<>>
    /\ config = {}
    /\ names = <<>>
    /\ k = 0
    /\ pc = "idle"
    /\ runs = 0
    /\ base = 0
    /\ lbase = 0
    /\ log = <<>>
    /\ got = [kind |-> "uncalled"]

LLMIdle ==
    /\ generator = None
    /\ request = [kind |-> "none"]
    /\ reply = [kind |-> "none"]

\* the application module in a process whose environment is fixed
Init ==
    /\ yaml \in SUBSET ConfigKeys
    /\ declared = yaml
    /\ apiClass \in ApiClasses
    /\ EXTENSIONS \in Strings(MaxEnvLen)
    /\ AppIdle
    /\ LLMIdle

Next ==
    \/ Start
    \/ IncludeDeclared
    \/ ClusterCase
    \/ SimilarityCase
    \/ ReadExtensions
    \/ ExtCreate
    \/ ExtCall
    \/ ExtRaise
    \/ Get

Spec == Init /\ [][Next]_vars

\* the keys start() has resolved in its current call: the keys of config and
\* the routers it included
RunRoutes == SubSeq(routes, base + 1, Len(routes))

Wired == { RunRoutes[i] : i \in 1..Len(RunRoutes) }

Resolved == config \cup Wired

\* the resolution rules of start() applied to their own result: the settings
\* are rewritten to the resolved keys and start() is called again
Feedback ==
    /\ pc = "done"
    /\ runs < MaxStarts
    /\ yaml' = Resolved
    /\ pc' = "idle"
    /\ UNCHANGED <<declared, apiClass, EXTENSIONS, instance, routes, config, names, k, runs, base, lbase, log, got>>
    /\ UNCHANGED llmvars

StartFresh == Enter({"idle"})

InitResolve ==
    /\ yaml \in SUBSET ConfigKeys
    /\ declared = yaml
    /\ apiClass \in ApiClasses
    /\ EXTENSIONS = <<>>
    /\ AppIdle
    /\ LLMIdle

NextResolve ==
    \/ StartFresh
    \/ IncludeDeclared
    \/ ClusterCase
    \/ SimilarityCase
    \/ ReadExtensions
    \/ Feedback

SpecResolve == InitResolve /\ [][NextResolve]_vars

\* the LLM pipeline
InitLLM ==
    /\ yaml = {}
    /\ declared = {}
    /\ apiClass = ""
    /\ EXTENSIONS = <<>>
    /\ AppIdle
    /\ LLMIdle

NextLLM ==
    \/ LLMInit
    \/ LLMCall

SpecLLM == InitLLM /\ [][NextLLM]_vars

----------------------------------------------------------------------------
(* Properties *)

RunLog == SubSeq(log, lbase + 1, Len(log))

Composed == pc \in {"extensions", "create", "call", "done", "failed"}

NoDuplicates(seq) == \A i, j \in 1..Len(seq) : seq[i] = seq[j] => i = j

Count(seq, e) == Cardinality({ i \in 1..Len(seq) : seq[i] = e })

\* the implication rules as capability graph edges (trigger, implied)
Edges == { << {"cluster"}, "embeddings" >>, << {"embeddings"}, "similarity" >> }

Implied(D) == { e[2] : e \in { f \in Edges : f[1] \subseteq D /\ f[2] \notin D } }

\* C1: once start() has composed the routers, the keys it has resolved are
\* the declared keys D plus every implied capability whose trigger is in D
\* and which is absent from D, both rules read against D only; the routers
\* it has included are those of that set that have a router.
\* {embeddings} gives {embeddings, similarity}; {cluster} gives
\* {cluster, embeddings} without similarity; {embeddings, similarity} is kept.
C1_ResolvedSet ==
    Composed =>
        /\ Resolved = config \cup Implied(config)
        /\ Wired = (config \cap RouterNames) \cup Implied(config)
        /\ (config = {"embeddings"} => Resolved = {"embeddings", "similarity"})
        /\ (config = {"cluster"} => Resolved = {"cluster", "embeddings"})
        /\ (config = {"embeddings", "similarity"} => Resolved = {"embeddings", "similarity"})

C1_Witness ==
    /\ pc = "done"
    /\ config = {"cluster"}
    /\ Resolved = {"cluster", "embeddings"}

\* C2: within one call of start() no router is included into the app more
\* than once, also when embeddings or similarity is both declared and the
\* conclusion of an implication rule.
C2_RouterOnce == NoDuplicates(RunRoutes)

C2_Witness ==
    /\ pc = "done"
    /\ {"cluster", "embeddings", "similarity"} \subseteq config
    /\ Count(RunRoutes, "embeddings") = 1
    /\ Count(RunRoutes, "similarity") = 1

NeedsSecondPass(D) == "cluster" \in D /\ "embeddings" \notin D /\ "similarity" \notin D

\* C3 as stated: resolving the already resolved set gives the same set.
C3_Idempotent ==
    (pc = "done" /\ runs = 2) => Resolved = yaml

\* C3 as amended: resolving the resolved set gives the same set unless D
\* holds cluster and neither embeddings nor similarity; for such D the
\* first pass adds embeddings only and the second pass adds similarity.
C3_IdempotentUnlessChain ==
    (pc = "done" /\ runs = 2) =>
        IF NeedsSecondPass(declared)
        THEN /\ yaml = declared \cup {"embeddings"}
             /\ Resolved = yaml \cup {"similarity"}
             /\ Resolved # yaml
        ELSE /\ yaml = declared \cup Implied(declared)
             /\ Resolved = yaml

C3_Witness ==
    /\ pc = "done"
    /\ runs = 2
    /\ declared = {"cluster"}
    /\ Resolved = {"cluster", "embeddings", "similarity"}

\* C4: composing the same settings twice into the app leaves the routers
\* of the first pass only; the second pass includes no router again.
C4_ComposeTwice ==
    (Composed /\ runs >= 2) => Len(routes) = base

\* C5: the extensions run in declared order, one at a time: the unit of the
\* name at position i is resolved, instantiated, invoked and has returned
\* before the unit of the name at position i+1 is resolved.
C5_Sequential ==
    \A j \in 1..Len(RunLog) :
        LET pos == ((j - 1) \div 4) + 1
            phase == (j - 1) % 4
            kind == RunLog[j][1]
        IN  /\ pos <= Len(names)
            /\ RunLog[j][2] = Strip(names[pos])
            /\ phase = 0 => kind \in {"get", "unresolved"}
            /\ phase = 1 => kind = "new"
            /\ phase = 2 => kind = "call"
            /\ phase = 3 => kind \in {"return", "raise"}
            /\ kind \in {"unresolved", "raise"} => j = Len(RunLog)

C5_Witness ==
    /\ pc = "done"
    /\ Len(RunLog) = 8
    /\ RunLog[4] = <<"return", <<"a">> >>
    /\ RunLog[5] = <<"get", <<"b">> >>

\* C6: every named extension is instantiated and invoked exactly once in
\* the life of the process, also when the list names it more than once.
C6_ExactlyOnce ==
    pc = "done" =>
        \A j \in 1..Len(names) :
            /\ Count(log, <<"new", Strip(names[j])>>) = 1
            /\ Count(log, <<"call", Strip(names[j])>>) = 1

\* C7: when an extension name does not resolve or an extension fails,
\* start() leaves nothing behind: INSTANCE is not set, no router of the
\* call stays included, and no earlier extension has acted on the app.
C7_NoPartialStart ==
    pc = "failed" =>
        /\ instance = None
        /\ RunRoutes = <<>>
        /\ \A j \in 1..Len(RunLog) : RunLog[j][1] # "return"

\* C8: get() never returns a null value: before start() has set INSTANCE it
\* fails, after start() it returns the instance start() built.
C8_GetFailsFast ==
    got.kind = "return" => got.value # None

\* C9: a call of LLM.__call__ on a backend that cannot bound its output
\* length is rejected with CapabilityMismatchError, never answered.
C9_RejectsUnbounded ==
    (reply.kind # "none" /\ ~generator.bounds) =>
        (reply.kind = "raise" /\ reply.error = "CapabilityMismatchError")

\* C10: whenever an extension is being instantiated or invoked, or has been,
\* in the current call of start(), INSTANCE is set from the loaded settings
\* and the routers of the resolved set, declared and implied, are all
\* included, each once; so none is included after the first extension began.
C10_FullyComposed ==
    (pc \in {"create", "call"} \/ RunLog # <<>>) =>
        /\ instance # None
        /\ instance.config = config
        /\ Wired = (config \cap RouterNames) \cup Implied(config)
        /\ Len(RunRoutes) = Cardinality(Wired)

C10_Witness ==
    /\ pc = "call"
    /\ config = {"cluster", "workflow"}
    /\ Wired = {"workflow", "embeddings"}

====
